---- MODULE Spec2Model ----
(***************************************************************************)
(* Verification model of the thaiger pipeline: the parse stage (main.py)   *)
(* and the posting stage (poster.py), with the two persisted JSON files    *)
(* they share (the posted-id ledger and the catalog).                      *)
(*                                                                         *)
(* Three specifications are defined over one set of variables:             *)
(*   SpecLedger - load_posted_ids / save_posted_ids as functions of the    *)
(*                ledger file's content;                                   *)
(*   Spec       - runs of poster.main against a directory of article       *)
(*                folders and the ledger file;                             *)
(*   SpecParse  - runs of main.main (fingerprint gate, catalog merge).     *)
(* A specification leaves the variables of the others at their initial     *)
(* values.                                                                 *)
(***************************************************************************)
EXTENDS Integers, Sequences, FiniteSets, TLC

(***************************************************************************)
(* Strings.  A Python string is a sequence of character codes; the codes   *)
(* 0..9 are the decimal digits '0'..'9', every other code is a non-digit.  *)
(***************************************************************************)
Digits == 0..9

\* The text "None", which str() gives for Python's None.
NoneStr == <<23, 24, 25, 26>>

\* s.isdigit()-like test: the strings int(s) accepts.
IsNumeric(s) ==
    /\ Len(s) > 0
    /\ \A i \in 1..Len(s) : s[i] \in Digits

\* int(s) for a numeric string s.
RECURSIVE int(_)
int(s) ==
    IF Len(s) = 0 THEN 0
    ELSE int(SubSeq(s, 1, Len(s) - 1)) * 10 + s[Len(s)]

\* The canonical decimal text of a natural number.
RECURSIVE DecimalText(_)
DecimalText(n) ==
    IF n < 10 THEN <<n>>
    ELSE DecimalText(n \div 10) \o <<n % 10>>

(***************************************************************************)
(* JSON values held in the ledger file: a string, an integer or null.      *)
(***************************************************************************)
JStr(s) == [t |-> "str", s |-> s, n |-> 0]
JInt(n) == [t |-> "int", s |-> <<>>, n |-> n]
JNull   == [t |-> "null", s |-> <<>>, n |-> 0]

\* str(item) of a parsed JSON array element.
str(item) ==
    CASE item.t = "str"  -> item.s
      [] item.t = "int"  -> DecimalText(item.n)
      [] item.t = "null" -> NoneStr

(***************************************************************************)
(* The ledger file.  kind is                                               *)
(*   "missing"    no file at the path,                                     *)
(*   "array"      a complete JSON array, items its elements,               *)
(*   "object"     a complete JSON object, items its keys,                  *)
(*   "number"     a complete JSON number,                                  *)
(*   "malformed"  text that is no JSON document: an empty file, or the     *)
(*                first elements of an array whose writing stopped         *)
(*                (items is what was written).                             *)
(***************************************************************************)
NoFile         == [kind |-> "missing", items |-> <<>>]
ArrayFile(l)   == [kind |-> "array", items |-> l]
ObjectFile(l)  == [kind |-> "object", items |-> l]
NumberFile     == [kind |-> "number", items |-> <<>>]
TornFile(l)    == [kind |-> "malformed", items |-> l]

\* The retention bound of poster.py.  The program's value is 100; the model
\* is scaled down to 2 so that ledgers longer than the bound are reachable.
MAX_POSTED_RECORDS == 2

(***************************************************************************)
(* Sequence helpers.                                                       *)
(***************************************************************************)
SeqToSet(l) == {l[i] : i \in 1..Len(l)}

SeqsUpTo(S, n) == UNION {[1..k -> S] : k \in 0..n}

(***************************************************************************)
(* poster.load_posted_ids                                                  *)
(***************************************************************************)
\* [str(item) for item in data if item is not None]
StrItemsNotNone(data) ==
    LET kept == SelectSeq(data, LAMBDA item : item.t # "null")
    IN  [i \in 1..Len(kept) |-> str(kept[i])]

\* The mutant of TrimToNewest: the slice keeps the head of the list.
TrimToOldest(ids_from_file) ==
    IF Len(ids_from_file) > MAX_POSTED_RECORDS
    THEN SubSeq(ids_from_file, 1, MAX_POSTED_RECORDS)
    ELSE ids_from_file

\* ids_from_file[len - MAX_POSTED_RECORDS:] when the list is longer than the bound.
TrimToNewest(ids_from_file) ==
    IF Len(ids_from_file) > MAX_POSTED_RECORDS
    THEN LET start_index == Len(ids_from_file) - MAX_POSTED_RECORDS
         IN  SubSeq(ids_from_file, start_index + 1, Len(ids_from_file))
    ELSE ids_from_file

\* The mutant of poster_load_posted_ids: the JSON error is not caught.
poster_load_uncaught(state_file) ==
    IF state_file.kind = "missing" THEN [raised |-> FALSE, ids |-> {}]
    ELSE IF state_file.kind = "malformed" THEN [raised |-> TRUE, ids |-> {}]
    ELSE LET ids_from_file ==
                 IF state_file.kind = "array"
                 THEN StrItemsNotNone(state_file.items)
                 ELSE <<>>
         IN  [raised |-> FALSE, ids |-> SeqToSet(TrimToNewest(ids_from_file))]

\* Returns [raised, ids]: whether the call raised, and the set it returned.
\* Malformed text raises inside the try and is caught (the list stays empty);
\* a document that is no list leaves the list empty as well.
poster_load_posted_ids(state_file) ==
    IF state_file.kind = "missing" THEN [raised |-> FALSE, ids |-> {}]
    ELSE LET ids_from_file ==
                 IF state_file.kind = "array"
                 THEN StrItemsNotNone(state_file.items)
                 ELSE <<>>
         IN  [raised |-> FALSE, ids |-> SeqToSet(TrimToNewest(ids_from_file))]

(***************************************************************************)
(* main.load_posted_ids                                                    *)
(***************************************************************************)
\* json.load, then {str(item) for item in data}; every exception gives set().
\* Iterating a JSON object yields its keys; iterating a number raises
\* TypeError; malformed text raises JSONDecodeError.
main_load_posted_ids(state_file_path) ==
    IF state_file_path.kind \in {"array", "object"}
    THEN [raised |-> FALSE,
          ids |-> {str(state_file_path.items[i]) :
                       i \in 1..Len(state_file_path.items)}]
    ELSE [raised |-> FALSE, ids |-> {}]

(***************************************************************************)
(* poster.save_posted_ids                                                  *)
(***************************************************************************)
\* Lexicographic order of two strings (Python's order of str values).
RECURSIVE StrLess(_, _)
StrLess(a, b) ==
    IF Len(a) = 0 THEN Len(b) > 0
    ELSE IF Len(b) = 0 THEN FALSE
    ELSE IF a[1] # b[1] THEN a[1] < b[1]
    ELSE StrLess(Tail(a), Tail(b))

\* The mutant of sorted_by_int: sorted() without key=int.
RECURSIVE sorted_as_str(_)
sorted_as_str(S) ==
    IF S = {} THEN <<>>
    ELSE LET m == CHOOSE x \in S : \A y \in S : x = y \/ StrLess(x, y)
         IN  <<m>> \o sorted_as_str(S \ {m})

\* sorted(list(all_ids_to_save), key=int), for a set of numeric strings.
RECURSIVE sorted_by_int(_)
sorted_by_int(S) ==
    IF S = {} THEN <<>>
    ELSE LET m == CHOOSE x \in S : \A y \in S : int(x) <= int(y)
         IN  <<m>> \o sorted_by_int(S \ {m})

\* The JSON array json.dump writes for a list of strings.
DumpList(final_list_to_save) ==
    [i \in 1..Len(final_list_to_save) |-> JStr(final_list_to_save[i])]

\* The outcomes of the file system during one save: no failure, or the
\* failure of mkdir, of open, or of the write after k elements were flushed.
IoOutcomes(n) ==
    {[fail |-> f, k |-> 0] : f \in {"none", "mkdir", "open"}}
    \cup {[fail |-> "write", k |-> j] : j \in 0..n}

\* Returns [raised, wrote, file]: whether the call raised to its caller,
\* whether the dump completed, and the file it leaves.
\*   line 294  mkdir is outside the try: its error propagates;
\*   line 298  int() of a non-numeric id raises ValueError, caught at 303;
\*   line 300  open("w") truncates the file, or fails (caught);
\*   line 301  the dump; an error while writing (caught) leaves a prefix.
save_posted_ids(all_ids_to_save, state_file, io) ==
    IF io.fail = "mkdir"
    THEN [raised |-> TRUE, wrote |-> FALSE, file |-> state_file]
    ELSE IF \E x \in all_ids_to_save : ~IsNumeric(x)
    THEN [raised |-> FALSE, wrote |-> FALSE, file |-> state_file]
    ELSE LET final_list_to_save == sorted_by_int(all_ids_to_save)
         IN  IF io.fail = "open"
             THEN [raised |-> FALSE, wrote |-> FALSE, file |-> state_file]
             ELSE IF io.fail = "write"
             THEN [raised |-> FALSE, wrote |-> FALSE,
                   file |-> TornFile(DumpList(SubSeq(final_list_to_save, 1, io.k)))]
             ELSE [raised |-> FALSE, wrote |-> TRUE,
                   file |-> ArrayFile(DumpList(final_list_to_save))]

(***************************************************************************)
(* Bounds of the model.                                                    *)
(***************************************************************************)
\* The smallest article id; the ids FirstId, FirstId+1, ... mix one- and
\* two-digit texts, so numeric and lexicographic order differ.
FirstId == 8
\* The number of ids save_posted_ids is called with.
PoolSize == 4
\* The longest array a pre-existing ledger file holds.
MaxFileLen == 3

IdPool == {DecimalText(n) : n \in FirstId..(FirstId + PoolSize - 1)}

\* The sets of ids passed to save_posted_ids: every set of numeric ids, and
\* one set holding an id that is not numeric ("None").
SaveArgs == (SUBSET IdPool) \cup {{DecimalText(FirstId), NoneStr}}

\* The elements a pre-existing ledger file may hold.
ElemPool ==
    {JStr(DecimalText(FirstId)), JStr(DecimalText(FirstId + 2)),
     JInt(FirstId + 1), JNull}

\* The contents the ledger file may have before the program touches it.
LedgerFiles ==
    {NoFile, NumberFile}
    \cup {ArrayFile(l) : l \in SeqsUpTo(ElemPool, MaxFileLen)}
    \cup {ObjectFile(l) : l \in SeqsUpTo({JStr(DecimalText(FirstId))}, 1)}
    \cup {TornFile(l) : l \in SeqsUpTo({JStr(DecimalText(FirstId))}, 1)}

(***************************************************************************)
(* State.                                                                  *)
(***************************************************************************)
VARIABLES
    file,   \* the ledger file (posted.json)
    ret,    \* SpecLedger: the last call of a ledger function and its result
            \* (arg: the ids of the last save that completed)
    \* --- poster.main ---
    folders,            \* the article folders of the parsed directory, in
                        \* the order of sorted(iterdir()): their meta.json
    pc,                 \* where the poster process stands
    posted_ids,         \* main: posted_ids
    articles_to_post,   \* main: articles_to_post (the ids)
    idx,                \* main: position of the loop over articles_to_post
    newly_posted_ids,   \* main: newly_posted_ids
    sent_count,         \* main: sent_count
    limit,              \* main: limit (some = FALSE is None)
    wlist,              \* save_posted_ids: final_list_to_save being dumped
    exit,               \* how the last poster run ended
    \* --- history, read by no action ---
    everPosted,         \* ids with every chunk sent in some run so far
    allSent,            \* ids with every chunk sent in the current run
    committed,          \* the ledger file before the last write began
    intended,           \* the ledger file the last write was to leave
    \* --- main.main ---
    catalogFile,        \* articles/catalog.json
    metas,              \* per article id: the stored meta.json
    mpc,                \* where the parse process stands
    catalog,            \* main: catalog, as loaded
    queue,              \* main: the posts of posts_to_process not yet parsed
    processed,          \* main: processed
    lang,               \* main: args.lang
    status,             \* the NEW_ARTICLES_STATUS line printed
    mexit,              \* how the last run of main.main ended
    \* --- history, read by no action ---
    gate,               \* the last decision of the fingerprint gate
    \* --- poster.chunk_text ---
    text,               \* chunk_text: text
    size,               \* chunk_text: size
    chunks,             \* chunk_text: the list returned
    cpc,                \* whether chunk_text was called
    \* --- main.translate_text, called by parse_and_save ---
    title,              \* parse_and_save: title
    raw_txt_clean,      \* parse_and_save: raw_txt_clean
    provider,           \* what the translation provider does in this call
    sent,               \* translate_text: the values of "q" requested
    final_title,        \* parse_and_save: final_title
    final_text,         \* parse_and_save: final_text
    tpc,                \* whether the translation step has run
    \* --- poster._post_with_retry ---
    attempt,            \* _post_with_retry: attempt
    log,                \* the outcomes of the requests issued so far
    result,             \* the value returned
    rpc                 \* where the call stands

ledgerVars == <<ret>>
runVars == <<pc, posted_ids, articles_to_post, idx, newly_posted_ids,
             sent_count, limit, wlist>>
histVars == <<everPosted, allSent, committed, intended>>
posterVars == <<folders, runVars, exit, histVars>>
parseVars == <<catalogFile, metas, mpc, catalog, queue, processed, lang,
               status, mexit, gate>>
chunkVars == <<text, size, chunks, cpc>>
translateVars == <<title, raw_txt_clean, provider, sent, final_title,
                   final_text, tpc>>
retryVars == <<attempt, log, result, rpc>>
pureVars == <<chunkVars, translateVars, retryVars>>
vars == <<file, ledgerVars, posterVars, parseVars, pureVars>>

(***************************************************************************)
(* poster.main: constants and initial values.                              *)
(***************************************************************************)
\* The number of article folders the parse stage creates.
MaxArticles == 3
\* The largest -n/--limit a run is started with.
MaxLimit == 2
\* The largest number of text chunks of one article.
MaxChunks == 2

\* The id of the k-th article the parse stage stores.
ArticleId(k) == DecimalText(FirstId + k - 1)
ArticleIds == {ArticleId(k) : k \in 1..MaxArticles}

NoLimit == [some |-> FALSE, n |-> 0]
Limits == {NoLimit} \cup {[some |-> TRUE, n |-> k] : k \in 1..MaxLimit}

\* The poster process between runs.
RunIdle ==
    /\ pc = "idle"
    /\ posted_ids = {}
    /\ articles_to_post = <<>>
    /\ idx = 0
    /\ newly_posted_ids = {}
    /\ sent_count = 0
    /\ limit = NoLimit
    /\ wlist = <<>>

PosterParked ==
    /\ folders = <<>>
    /\ RunIdle
    /\ exit = "none"
    /\ everPosted = {}
    /\ allSent = {}
    /\ committed = NoFile
    /\ intended = NoFile

(***************************************************************************)
(* main.main: constants and initial values.                                *)
(***************************************************************************)
\* The longest list fetch_posts returns.
MaxPosts == 2

\* The ids of the posts of the category.
PostIds == {ArticleId(1), ArticleId(2)}
\* The page texts make_request(link) may return.
Contents == {"page a", "page b"}
\* The values of -l/--lang.
Langs == {"ru", "en"}

\* hashlib.sha256(html_txt.encode()).hexdigest(); the digest is taken to
\* identify the text.
sha256(html_txt) == [digest_of |-> html_txt]

\* The dict written to meta.json, as far as the catalog and the gate read it.
Meta(aid, hash, translated_to) ==
    [id |-> aid, hash |-> hash, translated_to |-> translated_to]

\* meta.json of an article: absent, unparsable, or a dict.
NoMeta        == [state |-> "none", meta |-> Meta(<<>>, sha256(""), "")]
CorruptMeta   == [state |-> "corrupt", meta |-> Meta(<<>>, sha256(""), "")]
StoredMeta(m) == [state |-> "ok", meta |-> m]

\* No run of the fingerprint gate.
NoGate == [at |-> FALSE, skipped |-> FALSE, should |-> FALSE]

\* The parse process between runs.
ParseIdle ==
    /\ mpc = "idle"
    /\ catalog = <<>>
    /\ queue = <<>>
    /\ processed = <<>>
    /\ lang = ""
    /\ status = "none"
    /\ mexit = "none"
    /\ gate = NoGate

ParseParked ==
    /\ catalogFile = NoFile
    /\ metas = [a \in PostIds |-> NoMeta]
    /\ ParseIdle

\* No call of chunk_text.
ChunkParked ==
    /\ text = <<>>
    /\ size = 1
    /\ chunks = <<>>
    /\ cpc = "parked"

\* No run of the translation step.
TranslateParked ==
    /\ title = <<>>
    /\ raw_txt_clean = <<>>
    /\ provider = "none"
    /\ sent = <<>>
    /\ final_title = <<>>
    /\ final_text = <<>>
    /\ tpc = "parked"

\* No call of _post_with_retry.
RetryParked ==
    /\ attempt = 1
    /\ log = <<>>
    /\ result = FALSE
    /\ rpc = "parked"

PureParked == ChunkParked /\ TranslateParked /\ RetryParked

NoCall == [op |-> "none", arg |-> {}, raised |-> FALSE, wrote |-> FALSE,
           ids |-> {}]

(***************************************************************************)
(* SpecLedger: the ledger functions applied to any file content.           *)
(***************************************************************************)
InitLedger ==
    /\ file \in LedgerFiles
    /\ ret = NoCall
    /\ PosterParked
    /\ ParseParked
    /\ PureParked

\* A call save_posted_ids(ids, state_file).
LedgerSave ==
    \E ids \in SaveArgs :
        \E io \in IoOutcomes(Cardinality(ids)) :
            LET r == save_posted_ids(ids, file, io)
            IN  /\ file' = r.file
                /\ ret' = [op |-> "save",
                           arg |-> IF r.wrote THEN ids ELSE {},
                           raised |-> r.raised,
                           wrote |-> r.wrote, ids |-> {}]
                /\ UNCHANGED pureVars
                /\ UNCHANGED <<posterVars, parseVars>>

\* A call poster.load_posted_ids(state_file).
LedgerLoadPoster ==
    LET r == poster_load_posted_ids(file)
    IN  /\ ret' = [ret EXCEPT !.op = "poster.load", !.raised = r.raised,
                              !.ids = r.ids]
        /\ UNCHANGED pureVars
        /\ UNCHANGED <<file, posterVars, parseVars>>

\* A call main.load_posted_ids(state_file_path).
LedgerLoadMain ==
    LET r == main_load_posted_ids(file)
    IN  /\ ret' = [ret EXCEPT !.op = "main.load", !.raised = r.raised,
                              !.ids = r.ids]
        /\ UNCHANGED pureVars
        /\ UNCHANGED <<file, posterVars, parseVars>>

NextLedger ==
    \/ LedgerSave
    \/ LedgerLoadPoster
    \/ LedgerLoadMain

SpecLedger == InitLedger /\ [][NextLedger]_vars

(***************************************************************************)
(* Claims about the ledger functions.                                      *)
(***************************************************************************)
\* The n numerically largest ids of S.
Largest(S, n) ==
    {x \in S : Cardinality({y \in S : int(y) > int(x)}) < n}

\* The file holds a complete array of strings in strictly ascending
\* numeric order.
AscendingArray(f) ==
    /\ f.kind = "array"
    /\ \A i \in 1..Len(f.items) : f.items[i].t = "str"
    /\ \A i, j \in 1..Len(f.items) :
           i < j => int(f.items[i].s) < int(f.items[j].s)

\* C3 (as claimed): after a save of numeric-string ids that completed, the
\* file holds, in ascending numeric order, exactly the MAX_POSTED_RECORDS
\* numerically largest of the ids saved.
C3_SaveTruncates ==
    (ret.op = "save" /\ ret.wrote) =>
        /\ AscendingArray(file)
        /\ Len(file.items) <= MAX_POSTED_RECORDS
        /\ {file.items[i].s : i \in 1..Len(file.items)}
               = Largest(ret.arg, MAX_POSTED_RECORDS)

\* C4: poster.load_posted_ids of the file a completed save wrote returns the
\* saved ids when they are at most MAX_POSTED_RECORDS, and exactly the
\* MAX_POSTED_RECORDS numerically largest of them otherwise; it never
\* returns more than MAX_POSTED_RECORDS ids.
C4_RoundTrip ==
    (ret.op = "poster.load" /\ ret.wrote) =>
        /\ ~ret.raised
        /\ Cardinality(ret.ids) <= MAX_POSTED_RECORDS
        /\ IF Cardinality(ret.arg) <= MAX_POSTED_RECORDS
           THEN ret.ids = ret.arg
           ELSE ret.ids = Largest(ret.arg, MAX_POSTED_RECORDS)

\* C4 witness: a load after a completed save of more than
\* MAX_POSTED_RECORDS ids, among them a one-digit and a two-digit id.
C4_Witness ==
    /\ ret.op = "poster.load"
    /\ ret.wrote
    /\ Cardinality(ret.arg) > MAX_POSTED_RECORDS
    /\ \E x, y \in ret.arg : Len(x) < Len(y)
    /\ ret.ids # ret.arg

\* The texts of all elements of an array file.
AllElementTexts(f) == {str(f.items[i]) : i \in 1..Len(f.items)}

\* The texts of the last n elements of an array file that are not null.
LastNonNullTexts(f, n) ==
    LET live == {i \in 1..Len(f.items) : f.items[i].t # "null"}
    IN  {str(f.items[i]) :
             i \in {k \in live : Cardinality({j \in live : j > k}) < n}}

IsLoad == ret.op \in {"poster.load", "main.load"}

\* C8 (as claimed): a load of a file holding a JSON array returns the texts
\* of all the file's elements.
C8_LoadAllElements ==
    (IsLoad /\ file.kind = "array") => ret.ids = AllElementTexts(file)

\* C8 (amended): neither load raises; each returns the empty set for a
\* missing file and for malformed JSON; for a JSON array main.py returns the
\* texts of all elements, poster.py the texts of the last
\* MAX_POSTED_RECORDS elements that are not null.
C8_LoadTolerant ==
    IsLoad =>
        /\ ~ret.raised
        /\ file.kind \in {"missing", "malformed"} => ret.ids = {}
        /\ (file.kind = "array" /\ ret.op = "main.load")
               => ret.ids = AllElementTexts(file)
        /\ (file.kind = "array" /\ ret.op = "poster.load")
               => ret.ids = LastNonNullTexts(file, MAX_POSTED_RECORDS)

\* C8 witness: poster.py has loaded an array longer than the bound that
\* holds a null, and main.py-style coercion would give another set.
C8_Witness ==
    /\ ret.op = "poster.load"
    /\ file.kind = "array"
    /\ Len(file.items) > MAX_POSTED_RECORDS
    /\ \E i \in 1..Len(file.items) : file.items[i].t = "null"
    /\ ret.ids # {}
    /\ ret.ids # AllElementTexts(file)

(***************************************************************************)
(* poster.main                                                             *)
(***************************************************************************)
\* meta.json of an article folder: "ok" passes validate_article; "invalid"
\* is unreadable JSON or lacks a title or text file (skipped, lines 337/346).
Folder(id, meta) == [id |-> id, meta |-> meta]

\* Line 328: sorted(parsed_root.iterdir()): the folders in the order of their
\* names, which begin with the id text ("10_..." before "8_...").
RECURSIVE InsertByName(_, _)
InsertByName(d, l) ==
    IF Len(l) = 0 THEN <<d>>
    ELSE IF StrLess(d.id, Head(l).id) THEN <<d>> \o l
    ELSE <<Head(l)>> \o InsertByName(d, Tail(l))

RECURSIVE iterdir_sorted(_)
iterdir_sorted(dirs) ==
    IF Len(dirs) = 0 THEN <<>>
    ELSE InsertByName(dirs[Len(dirs)],
                      iterdir_sorted(SubSeq(dirs, 1, Len(dirs) - 1)))

\* Lines 328-347: the ids of the folders that are read, are not in
\* posted_ids and pass validate_article, in directory order.
RECURSIVE ScanFolders(_, _)
ScanFolders(dirs, posted) ==
    IF Len(dirs) = 0 THEN <<>>
    ELSE LET d == Head(dirs)
             rest == ScanFolders(Tail(dirs), posted)
         IN  IF d.meta = "ok" /\ d.id # NoneStr /\ d.id \notin posted
             THEN <<d.id>> \o rest
             ELSE rest

\* Insertion of x into a list sorted by int, after the entries equal to it.
RECURSIVE InsertByInt(_, _)
InsertByInt(x, l) ==
    IF Len(l) = 0 THEN <<x>>
    ELSE IF int(x) < int(Head(l)) THEN <<x>> \o l
    ELSE <<Head(l)>> \o InsertByInt(x, Tail(l))

\* The mutant of sort_articles: the list stays in directory order.
unsorted_articles(l) == l

\* Line 350: articles_to_post.sort(key=lambda x: int(x["id"])), a stable sort.
RECURSIVE sort_articles(_)
sort_articles(l) ==
    IF Len(l) = 0 THEN <<>>
    ELSE InsertByInt(l[Len(l)], sort_articles(SubSeq(l, 1, Len(l) - 1)))

\* What one send_message call does: returns True ("ok"), returns False
\* ("fail"), or raises ("raise").
SendOutcomes == {"ok", "fail", "raise"}

\* The outcomes of the send_message calls of one article, were all made.
ChunkOutcomes == UNION {[1..k -> SendOutcomes] : k \in 1..MaxChunks}

\* Lines 386-400 and 405: the loop over the chunks from chunk i on; it ends
\* "sent" after the last chunk, "failed" at the first False (break), and
\* "raised" at the first exception (caught at line 405).
RECURSIVE SendLoop(_, _)
SendLoop(outcomes, i) ==
    IF i > Len(outcomes) THEN "sent"
    ELSE IF outcomes[i] = "raise" THEN "raised"
    ELSE IF outcomes[i] = "fail" THEN "failed"
    ELSE SendLoop(outcomes, i + 1)

\* The mutant of posted_successfully: a False from send_message does not
\* clear all_chunks_sent.
posted_despite_failure(outcomes) ==
    \A i \in 1..Len(outcomes) : outcomes[i] # "raise"

\* Lines 370-406: posted_successfully after the try block.
posted_successfully(outcomes) == SendLoop(outcomes, 1) = "sent"

\* Line 363: limit is not None and sent_count >= limit.
LimitReached == limit.some /\ sent_count >= limit.n

InitPoster ==
    /\ file = NoFile
    /\ ret = NoCall
    /\ PosterParked
    /\ ParseParked
    /\ PureParked

\* main is left: by a return, by an exception, or because the process is
\* killed.
EndRun(how) ==
    /\ pc' = "exited"
    /\ posted_ids' = {}
    /\ articles_to_post' = <<>>
    /\ idx' = 0
    /\ newly_posted_ids' = {}
    /\ sent_count' = 0
    /\ limit' = NoLimit
    /\ wlist' = <<>>
    /\ exit' = how

\* The parse stage stores one more article folder (main.parse_and_save).
ParseStage ==
    /\ pc = "idle"
    /\ Len(folders) < MaxArticles
    /\ \E meta \in {"ok", "invalid"} :
           folders' = Append(folders, Folder(ArticleId(Len(folders) + 1), meta))
    /\ UNCHANGED pureVars
    /\ UNCHANGED <<file, ledgerVars, parseVars, runVars, exit, histVars>>

\* Lines 307-360: a run starts: load, scan, sort; it returns at once when
\* there is nothing to post.
StartRun ==
    /\ pc = "idle"
    /\ \E lim \in Limits :
        LET loaded == poster_load_posted_ids(file).ids
            found  == sort_articles(ScanFolders(iterdir_sorted(folders), loaded))
        IN  IF Len(found) = 0
            THEN EndRun("returned")
            ELSE /\ pc' = "loop"
                 /\ posted_ids' = loaded
                 /\ articles_to_post' = found
                 /\ idx' = 1
                 /\ newly_posted_ids' = {}
                 /\ sent_count' = 0
                 /\ limit' = lim
                 /\ wlist' = <<>>
                 /\ exit' = "none"
    /\ allSent' = {}
    /\ UNCHANGED pureVars
    /\ UNCHANGED <<file, ledgerVars, parseVars, folders, everPosted, committed,
                   intended>>

\* Lines 362-413: one iteration of the loop over articles_to_post.  (The
\* result of send_media_group is only logged.)
PostArticle ==
    /\ pc = "loop"
    /\ idx <= Len(articles_to_post)
    /\ ~LimitReached
    /\ \E outcomes \in ChunkOutcomes :
        LET aid == articles_to_post[idx]
            every == \A i \in 1..Len(outcomes) : outcomes[i] = "ok"
        IN  /\ IF posted_successfully(outcomes)
               THEN /\ newly_posted_ids' = newly_posted_ids \cup {aid}
                    /\ sent_count' = sent_count + 1
               ELSE UNCHANGED <<newly_posted_ids, sent_count>>
            /\ everPosted' = IF every THEN everPosted \cup {aid} ELSE everPosted
            /\ allSent' = IF every THEN allSent \cup {aid} ELSE allSent
    /\ idx' = idx + 1
    /\ UNCHANGED pureVars
    /\ UNCHANGED <<file, ledgerVars, parseVars, folders, pc, posted_ids,
                   articles_to_post, limit, wlist, exit, committed, intended>>

\* Lines 415-421 and 294-300: the loop is left (exhausted, or the limit is
\* reached); with new ids save_posted_ids is entered: mkdir (its error
\* propagates out of main), the sort (its error is caught), and open("w"),
\* which fails (caught) or truncates the file.
FinishLoop ==
    /\ pc = "loop"
    /\ idx > Len(articles_to_post) \/ LimitReached
    /\ IF newly_posted_ids = {}
       THEN /\ EndRun("returned")
            /\ UNCHANGED <<file, committed, intended>>
       ELSE LET all_ids_to_save == posted_ids \cup newly_posted_ids
            IN  \E io \in {"none", "mkdir", "open"} :
                    IF io = "mkdir"
                    THEN /\ EndRun("raised_save")
                         /\ UNCHANGED <<file, committed, intended>>
                    ELSE IF (\E x \in all_ids_to_save : ~IsNumeric(x))
                            \/ io = "open"
                    THEN /\ EndRun("returned")
                         /\ UNCHANGED <<file, committed, intended>>
                    ELSE /\ pc' = "writing"
                         /\ wlist' = sorted_by_int(all_ids_to_save)
                         /\ file' = TornFile(<<>>)
                         /\ committed' = file
                         /\ intended' = ArrayFile(DumpList(wlist'))
                         /\ UNCHANGED <<posted_ids, articles_to_post, idx,
                                        newly_posted_ids, sent_count, limit,
                                        exit>>
    /\ UNCHANGED pureVars
    /\ UNCHANGED <<ledgerVars, parseVars, folders, everPosted, allSent>>

\* Line 301: json.dump has written one more element to the file.
WriteElement ==
    /\ pc = "writing"
    /\ Len(file.items) < Len(wlist)
    /\ file' = TornFile(Append(file.items, JStr(wlist[Len(file.items) + 1])))
    /\ UNCHANGED pureVars
    /\ UNCHANGED <<ledgerVars, posterVars, parseVars>>

\* Lines 301-304: a write fails; the error is caught and logged, the file
\* stays as far as it was written, and main returns.
WriteFail ==
    /\ pc = "writing"
    /\ EndRun("returned")
    /\ UNCHANGED pureVars
    /\ UNCHANGED <<file, ledgerVars, parseVars, folders, histVars>>

\* Lines 300-302: the dump is complete and the file is closed; main returns.
WriteClose ==
    /\ pc = "writing"
    /\ Len(file.items) = Len(wlist)
    /\ file' = ArrayFile(file.items)
    /\ committed' = file'
    /\ intended' = file'
    /\ EndRun("returned")
    /\ UNCHANGED pureVars
    /\ UNCHANGED <<ledgerVars, parseVars, folders, everPosted, allSent>>

\* The poster process is killed.
Crash ==
    /\ pc \in {"loop", "writing"}
    /\ EndRun("killed")
    /\ UNCHANGED pureVars
    /\ UNCHANGED <<file, ledgerVars, parseVars, folders, histVars>>

\* The poster process is gone; the next run is a new process.
ProcessExit ==
    /\ pc = "exited"
    /\ pc' = "idle"
    /\ exit' = "none"
    /\ UNCHANGED pureVars
    /\ UNCHANGED <<file, ledgerVars, parseVars, folders, posted_ids,
                   articles_to_post, idx, newly_posted_ids, sent_count, limit,
                   wlist, histVars>>

\* What a reader of the ledger file in another process (the parse stage,
\* main.load_posted_ids) gets in the current state.
ReaderView(f) == main_load_posted_ids(f).ids

Next ==
    \/ ParseStage
    \/ StartRun
    \/ PostArticle
    \/ FinishLoop
    \/ WriteElement
    \/ WriteFail
    \/ WriteClose
    \/ Crash
    \/ ProcessExit

Spec == InitPoster /\ [][Next]_vars

(***************************************************************************)
(* Claims about the runs of poster.main.                                   *)
(***************************************************************************)
\* The texts the ledger file holds (complete or not).
FileTexts(f) == {str(f.items[i]) : i \in 1..Len(f.items)}

\* An article is posted in this step: the loop counts one more sent article.
PostsNow == pc = "loop" /\ sent_count' = sent_count + 1

\* The ids a completed save has recorded in the ledger file.
RecordedIds == IF file.kind = "array" THEN FileTexts(file) ELSE {}

\* C1 (as claimed): an id that an earlier run recorded in the ledger file
\* is never posted again, however many ids the file holds: no step posts
\* an article whose id is in the ledger file.
C1_PostedAtMostOnce ==
    [][PostsNow => articles_to_post[idx] \notin RecordedIds]_vars

\* C2: the ledger file holds an id only if every chunk of that article was
\* sent in some run, and newly_posted_ids holds an id only if every chunk of
\* that article was sent in the current run.
C2_NeverGained ==
    /\ FileTexts(file) \subseteq everPosted
    /\ newly_posted_ids \subseteq allSent
    /\ posted_ids \subseteq everPosted

\* C2 witness: the ledger of an earlier run is on disk, and in the current
\* run an article was attempted without every chunk sent, and is recorded
\* neither in newly_posted_ids nor in the file, while another one was posted.
C2_Witness ==
    /\ pc = "loop"
    /\ file.kind = "array"
    /\ Len(file.items) > 0
    /\ newly_posted_ids # {}
    /\ \E i \in 1..(idx - 1) :
           /\ articles_to_post[i] \notin allSent
           /\ articles_to_post[i] \notin newly_posted_ids
           /\ articles_to_post[i] \notin FileTexts(file)

\* C5 (as claimed): in every state, also while save_posted_ids writes and
\* after a write was interrupted, a reader of the ledger file gets the set
\* of the complete previous content or of the complete new content.
C5_AtomicWrite ==
    \/ ReaderView(file) = ReaderView(committed)
    \/ ReaderView(file) = ReaderView(intended)

\* The run's candidates at positions before i.
Attempted == {articles_to_post[i] : i \in 1..(idx - 1)}

\* C12 (as claimed): at every point of a run the ids posted in it are a
\* prefix of the candidates in ascending id order: no candidate left
\* unposted stands before a posted one.
C12_PostedPrefix ==
    \A i, j \in 1..Len(articles_to_post) :
        (i < j /\ articles_to_post[j] \in newly_posted_ids)
            => articles_to_post[i] \in newly_posted_ids

\* C12 (amended): the candidates are in ascending numeric id order, the
\* attempted ones are a prefix of them, and the ids posted in the run are
\* exactly the attempted candidates whose every chunk was sent.
C12_AttemptedPrefix ==
    /\ \A i, j \in 1..Len(articles_to_post) :
           i < j => int(articles_to_post[i]) <= int(articles_to_post[j])
    /\ newly_posted_ids \subseteq Attempted
    /\ \A a \in Attempted : a \in newly_posted_ids <=> a \in allSent

\* C12 witness: a run over candidates whose directory order is not their
\* numeric order has posted the first and failed the second, and the third
\* is not attempted yet.
C12_Witness ==
    /\ pc = "loop"
    /\ Len(articles_to_post) = 3
    /\ StrLess(articles_to_post[3], articles_to_post[1])
    /\ idx = 3
    /\ newly_posted_ids = {articles_to_post[1]}

\* C7 (as claimed): no failure inside save_posted_ids raises out of it, so
\* no run ends with an exception from the save.
C7_SaveNeverRaises == exit # "raised_save"

(***************************************************************************)
(* main.main and parse_and_save                                            *)
(***************************************************************************)
\* Line 464: [p for p in posts if str(p["id"]) not in posted].
NewPosts(posts, posted) == SelectSeq(posts, LAMBDA p : p \notin posted)

\* l[:n] for n >= 0.
Take(l, n) == SubSeq(l, 1, IF n < Len(l) THEN n ELSE Len(l))

\* Lines 274-280: the gate returns the stored meta when meta.json exists,
\* parses, and its "hash" equals the hash of the page just fetched.
GateSkips(stored, curr_hash) ==
    /\ stored.state = "ok"
    /\ stored.meta.hash = curr_hash

\* The mutant of Upsert: the entry is appended, none is removed.
UpsertAppendOnly(cat, m) == Append(cat, m)

\* Lines 486-487: catalog = [i for i in catalog if i.get("id") != m["id"]];
\* catalog.append(m).
Upsert(cat, m) == Append(SelectSeq(cat, LAMBDA i : i.id # m.id), m)

\* Lines 485-487: the loop over processed.
RECURSIVE MergeProcessed(_, _)
MergeProcessed(cat, proc) ==
    IF Len(proc) = 0 THEN cat
    ELSE MergeProcessed(Upsert(cat, Head(proc)), Tail(proc))

\* Insertion of an entry into a list sorted by int(id), after its equals.
RECURSIVE InsertEntry(_, _)
InsertEntry(m, l) ==
    IF Len(l) = 0 THEN <<m>>
    ELSE IF int(m.id) < int(Head(l).id) THEN <<m>> \o l
    ELSE <<Head(l)>> \o InsertEntry(m, Tail(l))

RECURSIVE SortEntries(_)
SortEntries(l) ==
    IF Len(l) = 0 THEN <<>>
    ELSE InsertEntry(l[Len(l)], SortEntries(SubSeq(l, 1, Len(l) - 1)))

\* Lines 488-490: catalog.sort(key=lambda x: int(x.get("id", 0))) inside
\* try/except: an id that is no number leaves the list as it is.
SortCatalog(cat) ==
    IF \A i \in 1..Len(cat) : IsNumeric(cat[i].id)
    THEN SortEntries(cat)
    ELSE cat

\* main is left (return, or exit(1) from the except clause at 497-499).
MainEnd(how) ==
    /\ mpc' = "exited"
    /\ mexit' = how

InitParse ==
    /\ file \in {NoFile, ArrayFile(<<JStr(ArticleId(1))>>)}
    /\ ret = NoCall
    /\ PosterParked
    /\ ParseParked
    /\ PureParked

\* Lines 450-476: set-up, the loads, and the choice of the posts to parse.
\*   setup = "fail": fetch_cat_id raises (exit 1);
\*   a catalog.json that is no JSON makes json.load raise (exit 1).
MainStart ==
    /\ mpc = "idle"
    /\ \E posts \in SeqsUpTo(PostIds, MaxPosts), l \in Langs,
          lim \in 1..MaxPosts, setup \in {"ok", "fail"} :
        LET posted == main_load_posted_ids(file).ids
            new_posts == NewPosts(posts, posted)
        IN  /\ lang' = l
            /\ IF setup = "fail"
               THEN /\ MainEnd("1:setup")
                    /\ UNCHANGED <<catalog, queue, status>>
               ELSE IF catalogFile.kind = "malformed"
               THEN /\ MainEnd("1:catalog_json")
                    /\ UNCHANGED <<catalog, queue, status>>
               ELSE /\ catalog' = catalogFile.items
                    /\ IF Len(new_posts) = 0
                       THEN /\ status' = "false"
                            /\ MainEnd("0")
                            /\ UNCHANGED queue
                       ELSE /\ queue' = Take(new_posts, lim)
                            /\ mpc' = "parsing"
                            /\ UNCHANGED <<status, mexit>>
    /\ UNCHANGED pureVars
    /\ UNCHANGED <<file, ledgerVars, posterVars, catalogFile, metas, processed,
                   gate>>

\* Lines 478-482 and 249-436: parse_and_save of the next post.
\*   "stopword", "fetch_fail": None is returned before the gate;
\*   "no_content": no images and too little text (None, line 387);
\*   "write_fail": writing meta.json fails; the exception leaves main;
\*   "done": the article is stored; translated tells whether translate_text
\*           gave a text.
ParseOne ==
    /\ mpc = "parsing"
    /\ Len(queue) > 0
    /\ \E html_txt \in Contents, translated \in BOOLEAN,
          out \in {"stopword", "fetch_fail", "no_content", "write_fail", "done"} :
        LET aid == Head(queue)
            stored == metas[aid]
            curr_hash == sha256(html_txt)
            should == /\ stored.state = "ok"
                      /\ stored.meta.hash = sha256(html_txt)
                      /\ stored.meta.translated_to = lang
            meta == Meta(aid, curr_hash, IF translated THEN lang ELSE "")
        IN  IF out \in {"stopword", "fetch_fail"}
            THEN /\ gate' = NoGate
                 /\ queue' = Tail(queue)
                 /\ UNCHANGED <<metas, processed, mpc, mexit>>
            ELSE IF GateSkips(stored, curr_hash)
            THEN /\ gate' = [at |-> TRUE, skipped |-> TRUE, should |-> should]
                 /\ processed' = Append(processed, stored.meta)
                 /\ queue' = Tail(queue)
                 /\ UNCHANGED <<metas, mpc, mexit>>
            ELSE /\ gate' = [at |-> TRUE, skipped |-> FALSE, should |-> should]
                 /\ IF out = "no_content"
                    THEN /\ queue' = Tail(queue)
                         /\ UNCHANGED <<metas, processed, mpc, mexit>>
                    ELSE IF out = "write_fail"
                    THEN /\ metas' = [metas EXCEPT ![aid] = CorruptMeta]
                         /\ MainEnd("1:parse_and_save")
                         /\ UNCHANGED <<queue, processed>>
                    ELSE /\ metas' = [metas EXCEPT ![aid] = StoredMeta(meta)]
                         /\ processed' = Append(processed, meta)
                         /\ queue' = Tail(queue)
                         /\ UNCHANGED <<mpc, mexit>>
    /\ UNCHANGED pureVars
    /\ UNCHANGED <<file, ledgerVars, posterVars, catalogFile, catalog, lang,
                   status>>

\* Lines 484-495: the merge of processed into the catalog, the sort and the
\* write of catalog.json (io = "fail": the file was opened, the dump failed).
MainMerge ==
    /\ mpc = "parsing"
    /\ Len(queue) = 0
    /\ IF Len(processed) = 0
       THEN /\ status' = "false"
            /\ MainEnd("0")
            /\ UNCHANGED catalogFile
       ELSE \E io \in {"ok", "fail"} :
               IF io = "fail"
               THEN /\ catalogFile' = TornFile(<<>>)
                    /\ MainEnd("1:catalog_write")
                    /\ UNCHANGED status
               ELSE /\ catalogFile' =
                          ArrayFile(SortCatalog(MergeProcessed(catalog, processed)))
                    /\ status' = "true"
                    /\ MainEnd("0")
    /\ UNCHANGED pureVars
    /\ UNCHANGED <<file, ledgerVars, posterVars, metas, catalog, queue,
                   processed, lang, gate>>

\* The parse process is gone; the next run is a new process.
MainExit ==
    /\ mpc = "exited"
    /\ mpc' = "idle"
    /\ catalog' = <<>>
    /\ queue' = <<>>
    /\ processed' = <<>>
    /\ lang' = ""
    /\ status' = "none"
    /\ mexit' = "none"
    /\ gate' = NoGate
    /\ UNCHANGED pureVars
    /\ UNCHANGED <<file, ledgerVars, posterVars, catalogFile, metas>>

NextParse ==
    \/ MainStart
    \/ ParseOne
    \/ MainMerge
    \/ MainExit

SpecParse == InitParse /\ [][NextParse]_vars

(***************************************************************************)
(* Claims about main.main.                                                 *)
(***************************************************************************)
\* C6 (as claimed): the gate skips exactly when the stored meta.json exists
\* and parses, its hash is the hash of the fetched page, and its
\* translated_to is the requested language.
C6_GateIffSameHashAndLang == gate.at => (gate.skipped <=> gate.should)

\* C9 (as claimed): a catalog.json holding corrupt JSON is read as an empty
\* catalog: no run ends with exit status 1 because of it.
C9_CorruptCatalogNotFatal == mexit # "1:catalog_json"

\* The index in proc of the last entry with the id of proc[k].
IsLastOfItsId(proc, k) ==
    \A j \in (k + 1)..Len(proc) : proc[j].id # proc[k].id

\* C10: when a run has saved the catalog, the saved catalog holds at most
\* one entry for an id, and for every id processed in the run that entry is
\* the one processed last.
C10_UpsertLastWins ==
    (mpc = "exited" /\ mexit = "0" /\ status = "true") =>
        /\ catalogFile.kind = "array"
        /\ \A i, j \in 1..Len(catalogFile.items) :
               catalogFile.items[i].id = catalogFile.items[j].id => i = j
        /\ \A k \in 1..Len(processed) :
               IsLastOfItsId(processed, k) =>
                   \E i \in 1..Len(catalogFile.items) :
                       catalogFile.items[i] = processed[k]

\* C10 witness: a run has saved the catalog after it processed one id twice,
\* in two versions, while the loaded catalog held a third version of it.
C10_Witness ==
    /\ mpc = "exited"
    /\ mexit = "0"
    /\ status = "true"
    /\ \E i, j \in 1..Len(processed) :
           /\ i < j
           /\ processed[i].id = processed[j].id
           /\ processed[i] # processed[j]
           /\ \E c \in 1..Len(catalog) :
                  /\ catalog[c].id = processed[i].id
                  /\ catalog[c] # processed[i]
                  /\ catalog[c] # processed[j]

\* How a run of main.main ends that was not stopped by a failure of the
\* set-up or of the catalog file itself.
BatchRunEnded ==
    /\ mpc = "exited"
    /\ mexit \notin {"1:setup", "1:catalog_json", "1:catalog_write"}

\* The posts of the run still to be parsed, the one whose parse_and_save
\* failed left aside.
RemainingPosts ==
    IF mexit = "1:parse_and_save" THEN Tail(queue) ELSE queue

\* C11 (as claimed): a failure confined to one article never aborts the
\* batch: when a run has ended, every other post chosen for it was handled,
\* and when some article was processed the catalog was saved.
C11_FailureIsolation ==
    BatchRunEnded =>
        /\ Len(RemainingPosts) = 0
        /\ Len(processed) > 0 => status = "true"

(***************************************************************************)
(* Text: a str is the sequence of its characters.                          *)
(***************************************************************************)
\* The characters str.strip, str.lstrip and str.split() take for whitespace.
Whitespace == {" ", "\n", "\r"}

\* s[i:] and s[:i] for 0 <= i <= len(s).
From(s, i) == SubSeq(s, i + 1, Len(s))
UpTo(s, i) == SubSeq(s, 1, i)

\* s.startswith(sep).
startswith(s, sep) == Len(s) >= Len(sep) /\ UpTo(s, Len(sep)) = sep

\* s.find(sep): the number of characters before the first occurrence of sep
\* in s, or -1.
RECURSIVE find(_, _)
find(s, sep) ==
    IF startswith(s, sep) THEN 0
    ELSE IF Len(s) = 0 THEN -1
    ELSE LET r == find(Tail(s), sep)
         IN  IF r = -1 THEN -1 ELSE r + 1

\* s.split(sep) for a non-empty sep.
RECURSIVE split(_, _)
split(s, sep) ==
    LET k == find(s, sep)
    IN  IF k = -1 THEN <<s>>
        ELSE <<UpTo(s, k)>> \o split(From(s, k + Len(sep)), sep)

\* s.replace(old, new) for a non-empty old.
RECURSIVE replace(_, _, _)
replace(s, old, new) ==
    LET k == find(s, old)
    IN  IF k = -1 THEN s
        ELSE UpTo(s, k) \o new \o replace(From(s, k + Len(old)), old, new)

RECURSIVE lstrip(_)
lstrip(s) ==
    IF Len(s) > 0 /\ Head(s) \in Whitespace THEN lstrip(Tail(s)) ELSE s

RECURSIVE rstrip(_)
rstrip(s) ==
    IF Len(s) > 0 /\ s[Len(s)] \in Whitespace
    THEN rstrip(UpTo(s, Len(s) - 1))
    ELSE s

strip(s) == rstrip(lstrip(s))

\* sep.join(l).
RECURSIVE join(_, _)
join(sep, l) ==
    IF Len(l) = 0 THEN <<>>
    ELSE IF Len(l) = 1 THEN l[1]
    ELSE l[1] \o sep \o join(sep, Tail(l))

(***************************************************************************)
(* poster.chunk_text                                                       *)
(***************************************************************************)
\* The mutant of word_overflows: the space that joins sub and w is not
\* counted.
word_overflows_uncounted(sub, w, sz) == Len(sub) + Len(w) > sz

\* Line 53: len(sub) + len(w) + 1 > size.
word_overflows(sub, w, sz) == Len(sub) + Len(w) + 1 > sz

\* Lines 52-57: the loop of split_long over the words from w on, with parts
\* and sub as they stand.
RECURSIVE split_long_loop(_, _, _, _)
split_long_loop(words, parts, sub, sz) ==
    IF Len(words) = 0 THEN [parts |-> parts, sub |-> sub]
    ELSE LET w == Head(words)
         IN  IF word_overflows(sub, w, sz)
             THEN split_long_loop(Tail(words), Append(parts, sub), w, sz)
             ELSE split_long_loop(Tail(words), parts,
                                  lstrip(sub \o <<" ">> \o w), sz)

\* Lines 50-60: split_long(p), with size of the enclosing call.
split_long(p, sz) ==
    LET r == split_long_loop(split(p, <<" ">>), <<>>, <<>>, sz)
    IN  IF Len(r.sub) > 0 THEN Append(r.parts, r.sub) ELSE r.parts

\* The mutant of para_fits: the separator is not counted.
para_fits_uncounted(curr, p, sz) == Len(curr) + Len(p) <= sz

\* Line 71: len(curr) + 2 + len(p) <= size.
para_fits(curr, p, sz) == Len(curr) + 2 + Len(p) <= sz

\* The mutant of start_next: curr is replaced without being appended.
start_next_unflushed(chunks_, curr, p) == [chunks |-> chunks_, curr |-> p]

\* Lines 74-75: chunks.append(curr); curr = p.
start_next(chunks_, curr, p) == [chunks |-> Append(chunks_, curr), curr |-> p]

\* Lines 62-75: the loop over paras from p on, with chunks and curr as they
\* stand.
RECURSIVE paras_loop(_, _, _, _)
paras_loop(paras, chunks_, curr, sz) ==
    IF Len(paras) = 0 THEN [chunks |-> chunks_, curr |-> curr]
    ELSE LET p == Head(paras)
             rest == Tail(paras)
         IN  IF Len(p) > sz
             THEN paras_loop(rest,
                             (IF Len(curr) > 0 THEN Append(chunks_, curr)
                                               ELSE chunks_)
                                 \o split_long(p, sz),
                             <<>>, sz)
             ELSE IF Len(curr) = 0
             THEN paras_loop(rest, chunks_, p, sz)
             ELSE IF para_fits(curr, p, sz)
             THEN paras_loop(rest, chunks_, curr \o <<"\n", "\n">> \o p, sz)
             ELSE LET n == start_next(chunks_, curr, p)
                  IN  paras_loop(rest, n.chunks, n.curr, sz)

\* Lines 46-47: the paragraphs of text that are not whitespace only.
paragraphs(txt) ==
    LET norm == replace(txt, <<"\r", "\n">>, <<"\n">>)
    IN  SelectSeq(split(norm, <<"\n", "\n">>), LAMBDA p : Len(strip(p)) > 0)

\* Lines 42-79: chunk_text(text, size).
chunk_text(txt, sz) ==
    LET r == paras_loop(paragraphs(txt), <<>>, <<>>, sz)
    IN  IF Len(r.curr) > 0 THEN Append(r.chunks, r.curr) ELSE r.chunks

\* The longest text and the largest size chunk_text is called with.
MaxTextLen == 6
MaxSize == 4

\* The characters of the texts.
Chars == {"a", "b", " ", "\n", "\r"}
Texts == SeqsUpTo(Chars, MaxTextLen)

InitChunk ==
    /\ file = NoFile
    /\ ret = NoCall
    /\ PosterParked
    /\ ParseParked
    /\ TranslateParked
    /\ RetryParked
    /\ text \in Texts
    /\ size \in 1..MaxSize
    /\ chunks = <<>>
    /\ cpc = "call"

\* chunks = chunk_text(text, size).
ChunkText ==
    /\ cpc = "call"
    /\ chunks' = chunk_text(text, size)
    /\ cpc' = "returned"
    /\ UNCHANGED <<text, size>>
    /\ UNCHANGED <<file, ledgerVars, posterVars, parseVars, translateVars,
                   retryVars>>

NextChunk == ChunkText

SpecChunk == InitChunk /\ [][NextChunk]_vars

(***************************************************************************)
(* Claims about chunk_text.                                                *)
(***************************************************************************)
\* s.split(): the words of s, its maximal runs of non-whitespace characters.
RECURSIVE Words(_)
Words(s) ==
    LET t == lstrip(s)
    IN  IF Len(t) = 0 THEN <<>>
        ELSE LET n == CHOOSE k \in 1..Len(t) :
                          /\ \A i \in 1..k : t[i] \notin Whitespace
                          /\ k = Len(t) \/ t[k + 1] \in Whitespace
             IN  <<UpTo(t, n)>> \o Words(From(t, n))

\* C13: every chunk returned by chunk_text(text, size) is no longer than
\* size, unless it is a single word (it holds no space) longer than size.
C13_ChunkLengthBound ==
    cpc = "returned" =>
        \A i \in 1..Len(chunks) :
            \/ Len(chunks[i]) <= size
            \/ \A k \in 1..Len(chunks[i]) : chunks[i][k] # " "

\* C13 witness: a call has cut a paragraph longer than size into chunks, one
\* of them of exactly size characters with a space inside.
C13_Witness ==
    /\ cpc = "returned"
    /\ Len(paragraphs(text)) = 1
    /\ Len(paragraphs(text)[1]) > size
    /\ Len(chunks) >= 2
    /\ \E i \in 1..Len(chunks) :
           /\ Len(chunks[i]) = size
           /\ find(chunks[i], <<" ">>) > 0

\* C14: the chunks of chunk_text(text, size), joined with a blank line, hold
\* the words of text, each once and in their order; a text without a word
\* gives the empty list.
C14_ChunkReconstruction ==
    cpc = "returned" =>
        /\ Words(join(<<"\n", "\n">>, chunks)) = Words(text)
        /\ Len(Words(text)) = 0 => chunks = <<>>

\* C14 witness: a call has returned more than one chunk for a text of
\* several paragraphs, one of them cut at a space.
C14_Witness ==
    /\ cpc = "returned"
    /\ Len(paragraphs(text)) >= 2
    /\ Len(chunks) > Len(paragraphs(text))
    /\ Len(Words(text)) >= 3

\* The text is one unbroken run of characters.
UnbrokenRun(s) == \A i \in 1..Len(s) : s[i] \notin Whitespace

\* ceil(a / b) for b > 0.
CeilDiv(a, b) == (a + b - 1) \div b

\* C15 (as claimed): a text that is one unbroken run longer than size is cut
\* into ceil(len/size) chunks, none longer than size, whose concatenation is
\* the text.
C15_LongRunSplit ==
    (cpc = "returned" /\ UnbrokenRun(text) /\ Len(text) > size) =>
        /\ Len(chunks) = CeilDiv(Len(text), size)
        /\ \A i \in 1..Len(chunks) : Len(chunks[i]) <= size
        /\ join(<<>>, chunks) = text

\* C19 (as claimed): chunk_text returns no empty chunk.
C19_NoEmptyChunk ==
    cpc = "returned" => \A i \in 1..Len(chunks) : Len(chunks[i]) > 0

(***************************************************************************)
(* main.translate_text and the translation step of parse_and_save          *)
(***************************************************************************)
\* The length limit of translate_text (1800 in lines 64 and 71) and the
\* length parse_and_save cuts the text to (4500 in lines 396 and 413), to
\* scale.
SegmentLimit == 4
TranslateCap == 6

\* Line 395.
DELIMITER == <<"\n", "|", "|", "|", "\n">>

\* Lines 61-76: the loop over text.split('\n') from paragraph on, with chunks
\* and current_chunk as they stand.
RECURSIVE segments_loop(_, _, _)
segments_loop(lines, chunks_, current_chunk) ==
    IF Len(lines) = 0
    THEN IF Len(current_chunk) > 0 THEN Append(chunks_, current_chunk)
                                   ELSE chunks_
    ELSE LET paragraph == Head(lines)
             rest == Tail(lines)
         IN  IF Len(paragraph) > SegmentLimit
             THEN segments_loop(rest,
                                (IF Len(current_chunk) > 0
                                 THEN Append(chunks_, current_chunk)
                                 ELSE chunks_) \o <<paragraph>>,
                                <<>>)
             ELSE IF Len(current_chunk) + Len(paragraph) < SegmentLimit
             THEN segments_loop(rest, chunks_,
                                current_chunk \o paragraph \o <<"\n">>)
             ELSE segments_loop(rest, Append(chunks_, current_chunk),
                                paragraph \o <<"\n">>)

\* Lines 59-76: the chunks translate_text makes of text.
segments(txt) == segments_loop(split(txt, <<"\n">>), <<>>, <<>>)

\* Lines 83-91: the values of "q" sent: chunk.strip() of every chunk that is
\* not whitespace only.
requested(chunks_) ==
    LET nonblank == SelectSeq(chunks_, LAMBDA c : Len(strip(c)) > 0)
    IN  [i \in 1..Len(nonblank) |-> strip(nonblank[i])]

\* Lines 83-100: the entry of translated_parts for one chunk.  The provider
\*   "echo": answers 200 with the text of q unchanged;
\*   "down": answers another status or the request raises.
translated_part(chunk, prov) ==
    IF Len(strip(chunk)) = 0 THEN <<>>
    ELSE IF prov = "echo" THEN strip(chunk)
    ELSE chunk

\* Lines 58-102: translate_text(text, to_lang).
translate_text(txt, prov) ==
    IF Len(txt) = 0 THEN <<>>
    ELSE LET chunks_ == segments(txt)
         IN  join(<<"\n">>,
                  [i \in 1..Len(chunks_) |-> translated_part(chunks_[i], prov)])

\* s.split(sep, 1).
split_once(s, sep) ==
    LET k == find(s, sep)
    IN  IF k = -1 THEN <<s>> ELSE <<UpTo(s, k), From(s, k + Len(sep))>>

\* Lines 390-414: the translation step of parse_and_save for a non-empty
\* lang (sanitize_text of line 416 leaves a title of letters as it is).
translation_step(title_, raw, prov) ==
    LET text_to_translate == UpTo(raw, IF Len(raw) < TranslateCap
                                       THEN Len(raw) ELSE TranslateCap)
        combined_text == title_ \o DELIMITER \o text_to_translate
        translated_combined == translate_text(combined_text, prov)
        parts == IF find(translated_combined, <<"|", "|", "|">>) # -1
                 THEN split_once(translated_combined, <<"|", "|", "|">>)
                 ELSE split_once(translated_combined, <<"\n">>)
        more == IF Len(raw) > TranslateCap
                THEN <<"\n", "\n", ".", ".", ".">> ELSE <<>>
    IN  IF Len(raw) = 0 \/ Len(translated_combined) = 0
        THEN [final_title |-> title_, final_text |-> raw,
              sent |-> IF Len(raw) = 0 THEN <<>>
                       ELSE requested(segments(combined_text))]
        ELSE [final_title |-> strip(parts[1]),
              final_text |-> (IF Len(parts) > 1 THEN strip(parts[2]) ELSE <<>>)
                             \o more,
              sent |-> requested(segments(combined_text))]

\* The longest title and the longest text of an article.
MaxTitleLen == 1
MaxBodyLen == 7

\* The titles: sanitize_text has removed the whitespace around them.
Titles == SeqsUpTo({"a", "b"}, MaxTitleLen) \ {<<>>}

\* The texts: "\n\n".join(blocks) of blocks without whitespace around them.
Bodies ==
    {b \in SeqsUpTo({"a", "b", "\n"}, MaxBodyLen) :
        /\ Len(b) > 0
        /\ strip(b) = b
        /\ find(b, <<"\n", "\n", "\n">>) = -1}

InitTranslate ==
    /\ file = NoFile
    /\ ret = NoCall
    /\ PosterParked
    /\ ParseParked
    /\ ChunkParked
    /\ RetryParked
    /\ title \in Titles
    /\ raw_txt_clean \in Bodies
    /\ provider \in {"echo", "down"}
    /\ sent = <<>>
    /\ final_title = <<>>
    /\ final_text = <<>>
    /\ tpc = "call"

\* Lines 390-414 of parse_and_save, with the call of translate_text.
TranslateStep ==
    /\ tpc = "call"
    /\ LET r == translation_step(title, raw_txt_clean, provider)
       IN  /\ final_title' = r.final_title
           /\ final_text' = r.final_text
           /\ sent' = r.sent
    /\ tpc' = "done"
    /\ UNCHANGED <<title, raw_txt_clean, provider>>
    /\ UNCHANGED <<file, ledgerVars, posterVars, parseVars, chunkVars,
                   retryVars>>

NextTranslate == TranslateStep

SpecTranslate == InitTranslate /\ [][NextTranslate]_vars

(***************************************************************************)
(* Claims about the translation step.                                      *)
(***************************************************************************)
\* C16 (as claimed): no text sent to the translation provider is longer
\* than the limit.
C16_SegmentWithinLimit ==
    tpc = "done" => \A i \in 1..Len(sent) : Len(sent[i]) <= SegmentLimit

\* C17 (as claimed): with a provider that returns every text unchanged, the
\* title and the text the translation step gives are the title and the text
\* it was given.
C17_RecombineRoundTrip ==
    (tpc = "done" /\ provider = "echo") =>
        /\ final_title = title
        /\ final_text = raw_txt_clean

(***************************************************************************)
(* poster._post_with_retry                                                 *)
(***************************************************************************)
MAX_RETRIES == 3

\* What one request of _post_with_retry (lines 142-163) comes to:
\*   "ok":          a response that raise_for_status accepts;
\*   "timeout":     ReadTimeout;
\*   "429":         status 429 with a JSON object as body;
\*   "429_no_json": status 429 with a body that response.json() rejects
\*                  or that is no JSON object;
\*   "4xx":         another status from 400 to 499;
\*   "5xx":         a status from 500 on;
\*   "request":     another httpx.RequestError;
\*   "other":       another exception of the try block.
Outcomes ==
    {"ok", "timeout", "429", "429_no_json", "4xx", "5xx", "request", "other"}

\* Lines 142-165: what the loop body does after a request: it returns True
\* or False, goes to the next attempt (after a sleep), or lets the exception
\* of response.json() in the handler of line 148 leave the function.
after_request(outcome) ==
    IF outcome = "ok" THEN "return_true"
    ELSE IF outcome = "4xx" THEN "return_false"
    ELSE IF outcome = "429_no_json" THEN "raise"
    ELSE "next"

InitRetry ==
    /\ file = NoFile
    /\ ret = NoCall
    /\ PosterParked
    /\ ParseParked
    /\ ChunkParked
    /\ TranslateParked
    /\ attempt = 1
    /\ log = <<>>
    /\ result = FALSE
    /\ rpc = "loop"

\* Lines 141-165: one pass of the loop for attempt in range(1, MAX_RETRIES+1).
RetryAttempt ==
    /\ rpc = "loop"
    /\ attempt <= MAX_RETRIES
    /\ \E outcome \in Outcomes :
        LET todo == after_request(outcome)
        IN  /\ log' = Append(log, outcome)
            /\ rpc' = CASE todo = "next" -> "loop"
                        [] todo = "raise" -> "raised"
                        [] OTHER -> "returned"
            /\ result' = (todo = "return_true")
            /\ attempt' = IF todo = "next" THEN attempt + 1 ELSE attempt
    /\ UNCHANGED <<file, ledgerVars, posterVars, parseVars, chunkVars,
                   translateVars>>

\* Lines 167-169: the loop is exhausted; False is returned.
RetryExhausted ==
    /\ rpc = "loop"
    /\ attempt > MAX_RETRIES
    /\ rpc' = "returned"
    /\ result' = FALSE
    /\ UNCHANGED <<attempt, log>>
    /\ UNCHANGED <<file, ledgerVars, posterVars, parseVars, chunkVars,
                   translateVars>>

NextRetry ==
    \/ RetryAttempt
    \/ RetryExhausted

SpecRetry == InitRetry /\ [][NextRetry]_vars

(***************************************************************************)
(* Claims about _post_with_retry.                                          *)
(***************************************************************************)
\* C18 (as claimed): a call issues at most MAX_RETRIES requests and never
\* raises; it returns True exactly when its last request succeeded, and it
\* returns False either at once on a status 4xx other than 429 or after
\* MAX_RETRIES requests.
C18_BoundedRetry ==
    /\ Len(log) <= MAX_RETRIES
    /\ rpc # "raised"
    /\ rpc = "loop" =>
           \A i \in 1..Len(log) : log[i] \notin {"ok", "4xx"}
    /\ rpc = "returned" =>
           /\ Len(log) > 0
           /\ \A i \in 1..(Len(log) - 1) : log[i] \notin {"ok", "4xx"}
           /\ result <=> log[Len(log)] = "ok"
           /\ ~result => (log[Len(log)] = "4xx" \/ Len(log) = MAX_RETRIES)

====
